---------------------------- MODULE Spec2Model ----------------------------
(***************************************************************************)
(* Model of firmware/csi_receiver/main/csi_receiver.c: app_main and        *)
(* wifi_init bring the station up and register CSI capture; the default    *)
(* event loop dispatches events to wifi_event_handler; the radio driver    *)
(* hands CSI buffers to wifi_csi_cb, which prints them on standard output.  *)
(*                                                                         *)
(* The vendor stack (esp_wifi, esp_event, esp_netif, nvs) is the           *)
(* environment.  Its state is the record `stack`; each call of the         *)
(* firmware either takes effect or returns an error, and the firmware      *)
(* never looks at the returned value.                                      *)
(***************************************************************************)
EXTENDS Integers, Sequences, FiniteSets, TLC

(***************************************************************************)
(* Bounds of the model.                                                    *)
(***************************************************************************)
\* longest CSI buffer handed to wifi_csi_cb under SpecCsi (under Spec, which
\* interleaves the callback with the rest of the system, the driver delivers
\* the two buffers of SysSamples: the empty one and one of two elements)
MaxLen == 3
\* number of CSI buffers the driver delivers in a behaviour
MaxSamples == 1
\* number of events the loop hands to wifi_event_handler in a behaviour
MaxEvents == 4
\* capacity of the event loop's queue
MaxQueue == 2

(***************************************************************************)
(* Program constants (values of the vendor headers' enumerations).         *)
(***************************************************************************)
WIFI_EVENT_WIFI_READY       == 0
WIFI_EVENT_STA_START        == 2
WIFI_EVENT_STA_CONNECTED    == 4
WIFI_EVENT_STA_DISCONNECTED == 5
IP_EVENT_STA_GOT_IP         == 0
IP_EVENT_AP_STAIPASSIGNED   == 2
ESP_EVENT_ANY_ID            == -1

WIFI_EVENT == "WIFI_EVENT"
IP_EVENT   == "IP_EVENT"

WIFI_SSID == "Connecting..."
WIFI_PASS == "Error501"

\* wifi_config: the Connection Configuration built at lines 68-74
wifi_config ==
    [ssid |-> WIFI_SSID, password |-> WIFI_PASS, authmode |-> "WIFI_AUTH_WPA2_PSK"]

\* csi_config: the CSI Capture Configuration built at lines 81-89
csi_config ==
    [lltf_en |-> TRUE, htltf_en |-> TRUE, stbc_htltf2_en |-> TRUE,
     ltf_merge_en |-> TRUE, channel_filter_en |-> FALSE,
     manu_scale |-> FALSE, shift |-> FALSE]

None == "none"

(***************************************************************************)
(* Text: standard output is a stream of characters; a character is a       *)
(* string of length one.                                                   *)
(***************************************************************************)
Digits == <<"0", "1", "2", "3", "4", "5", "6", "7", "8", "9">>

RECURSIVE FmtNat(_)
\* decimal digits of a natural number, most significant first
FmtNat(n) ==
    IF n < 10 THEN <<Digits[n + 1]>>
    ELSE FmtNat(n \div 10) \o <<Digits[(n % 10) + 1]>>

\* printf's %d conversion of an int
FmtInt(v) == IF v < 0 THEN <<"-">> \o FmtNat(-v) ELSE FmtNat(v)

\* the value an int8_t element of info->buf holds when v is stored into it
ToInt8(v) == ((v + 128) % 256) - 128

\* the first printf of wifi_csi_cb
CsiLabelText == <<"C", "S", "I", "_", "D", "A", "T", "A", ":", " ">>

\* a plausible slip: the separator forgotten
CsiTokenTextNoSeparator(v) == FmtInt(v)

\* a plausible slip: the element printed as an unsigned char
CsiTokenTextUnsigned(v) == FmtInt(v % 256) \o <<" ">>

\* printf("%d ", info->buf[i])
CsiTokenText(v) == FmtInt(v) \o <<" ">>

\* printf("\n")
CsiNewlineText == <<"\n">>

\* the messages of the three ESP_LOGI calls
LogRetry     == "Retrying WiFi connection..."
LogConnected == "WiFi connected. CSI should start appearing."
LogCsiInit   == "CSI initialized"


(***************************************************************************)
(* State.                                                                  *)
(***************************************************************************)
VARIABLES
    calls,     \* the calls app_main / wifi_init have made so far, with their results
    stack,     \* the vendor stack: what each successful call has set up
    conn,      \* the connection state held by the vendor stack
    evq,       \* events posted to the default event loop, not yet dispatched
    handled,   \* per kind, how many events wifi_event_handler has been run for
    last,      \* the event of the latest wifi_event_handler invocation
    connects,  \* number of esp_wifi_connect requests issued
    log,       \* the diagnostic log: the entries ESP_LOGI has written, in order
    out,       \* standard output: the writes printf has made, in order
    torn,      \* the samples into whose line, begun and not yet ended on the
               \* console, a log entry has been written
    rx,        \* the CSI samples the driver has delivered so far
    info,      \* wifi_csi_cb's argument: [buf, len] of the running invocation
    cbpc,      \* wifi_csi_cb's position: idle, label, loop
    i          \* wifi_csi_cb's loop index

vars == <<calls, stack, conn, evq, handled, last, connects, log, out, torn, rx,
          info, cbpc, i>>

\* a plausible slip: capture enabled before its configuration and callback are set
WifiInitOrderEnableFirst ==
    <<"nvs_flash_init", "esp_netif_init", "esp_event_loop_create_default",
      "esp_netif_create_default_wifi_sta", "esp_wifi_init",
      "register_WIFI_EVENT", "register_IP_EVENT",
      "esp_wifi_set_mode", "esp_wifi_set_config", "esp_wifi_start",
      "esp_wifi_set_csi", "esp_wifi_set_csi_config", "esp_wifi_set_csi_rx_cb",
      "ESP_LOGI">>

\* a plausible slip: the radio started before the handler is registered
WifiInitOrderStartFirst ==
    <<"nvs_flash_init", "esp_netif_init", "esp_event_loop_create_default",
      "esp_netif_create_default_wifi_sta", "esp_wifi_init",
      "esp_wifi_set_mode", "esp_wifi_set_config", "esp_wifi_start",
      "register_WIFI_EVENT", "register_IP_EVENT",
      "esp_wifi_set_csi_config", "esp_wifi_set_csi_rx_cb", "esp_wifi_set_csi",
      "ESP_LOGI">>

\* the statements of app_main and wifi_init, in program order
WifiInitOrder ==
    <<"nvs_flash_init", "esp_netif_init", "esp_event_loop_create_default",
      "esp_netif_create_default_wifi_sta", "esp_wifi_init",
      "register_WIFI_EVENT", "register_IP_EVENT",
      "esp_wifi_set_mode", "esp_wifi_set_config", "esp_wifi_start",
      "esp_wifi_set_csi_config", "esp_wifi_set_csi_rx_cb", "esp_wifi_set_csi",
      "ESP_LOGI">>

\* the statement app_main / wifi_init executes next ("done" after the last)
pc ==
    IF Len(calls) < Len(WifiInitOrder) THEN WifiInitOrder[Len(calls) + 1]
    ELSE "done"

\* the statement fn returns ok / an error; the firmware drops the value
Return(fn, ok) ==
    calls' = Append(calls, [fn |-> fn, ret |-> IF ok THEN "ESP_OK" ELSE "ESP_FAIL"])

Called(fn) == \E k \in 1..Len(calls) : calls[k].fn = fn

Failed(fn) == \E k \in 1..Len(calls) : calls[k].fn = fn /\ calls[k].ret = "ESP_FAIL"

StackInit ==
    [nvs |-> FALSE, netif |-> FALSE, loop |-> FALSE, staIf |-> FALSE,
     radio |-> FALSE, regs |-> {}, mode |-> None, config |-> <<>>,
     started |-> FALSE, csiCfg |-> <<>>, csiCbs |-> <<>>, csiEn |-> FALSE]

NoInfo == [buf |-> <<>>, len |-> 0]

EventKinds == {"sta_start", "sta_disconnected", "got_ip", "other"}

Init ==
    /\ calls = <<>>
    /\ stack = StackInit
    /\ conn = "disconnected"
    /\ evq = <<>>
    /\ handled = [k \in EventKinds |-> 0]
    /\ last = <<>>
    /\ connects = 0
    /\ log = <<>>
    /\ out = <<>>
    /\ torn = {}
    /\ rx = <<>>
    /\ info = NoInfo
    /\ cbpc = "idle"
    /\ i = 0

\* esp_event_post: the event is queued when the default loop exists
Post(q, st, ev) == IF st.loop THEN Append(q, ev) ELSE q

\* everything but calls and stack
UnchangedRun ==
    UNCHANGED <<conn, evq, handled, last, connects, log, out, torn, rx, info, cbpc, i>>

(***************************************************************************)
(* app_main and wifi_init, one action per statement.  A call that cannot   *)
(* succeed in the stack's state returns an error; the calls that allocate  *)
(* may also fail on their own.  No result is examined.                     *)
(***************************************************************************)
nvs_flash_init ==
    /\ pc = "nvs_flash_init"
    /\ \E ok \in BOOLEAN :
          /\ stack' = [stack EXCEPT !.nvs = ok]
          /\ Return("nvs_flash_init", ok)
    /\ UnchangedRun

esp_netif_init ==
    /\ pc = "esp_netif_init"
    /\ \E ok \in BOOLEAN :
          /\ stack' = [stack EXCEPT !.netif = ok]
          /\ Return("esp_netif_init", ok)
    /\ UnchangedRun

esp_event_loop_create_default ==
    /\ pc = "esp_event_loop_create_default"
    /\ \E ok \in BOOLEAN :
          /\ stack' = [stack EXCEPT !.loop = ok]
          /\ Return("esp_event_loop_create_default", ok)
    /\ UnchangedRun

esp_netif_create_default_wifi_sta ==
    /\ pc = "esp_netif_create_default_wifi_sta"
    /\ LET ok == stack.netif /\ stack.loop IN
          /\ stack' = [stack EXCEPT !.staIf = ok]
          /\ Return("esp_netif_create_default_wifi_sta", ok)
    /\ UnchangedRun

esp_wifi_init ==
    /\ pc = "esp_wifi_init"
    /\ \E ok \in (IF stack.nvs THEN BOOLEAN ELSE {FALSE}) :
          /\ stack' = [stack EXCEPT !.radio = ok]
          /\ Return("esp_wifi_init", ok)
    /\ UnchangedRun

\* esp_event_handler_instance_register(base, id, &wifi_event_handler, NULL, NULL)
Register(fn, base, id) ==
    /\ pc = fn
    /\ LET ok == stack.loop IN
          /\ stack' = IF ok THEN [stack EXCEPT !.regs = @ \cup {<<base, id>>}]
                      ELSE stack
          /\ Return(fn, ok)
    /\ UnchangedRun

register_WIFI_EVENT == Register("register_WIFI_EVENT", WIFI_EVENT, ESP_EVENT_ANY_ID)

register_IP_EVENT == Register("register_IP_EVENT", IP_EVENT, IP_EVENT_STA_GOT_IP)

esp_wifi_set_mode ==
    /\ pc = "esp_wifi_set_mode"
    /\ LET ok == stack.radio IN
          /\ stack' = IF ok THEN [stack EXCEPT !.mode = "WIFI_MODE_STA"] ELSE stack
          /\ Return("esp_wifi_set_mode", ok)
    /\ UnchangedRun

esp_wifi_set_config ==
    /\ pc = "esp_wifi_set_config"
    /\ LET ok == stack.radio IN
          /\ stack' = IF ok THEN [stack EXCEPT !.config = <<wifi_config>>] ELSE stack
          /\ Return("esp_wifi_set_config", ok)
    /\ UnchangedRun

\* a successful start raises WIFI_EVENT_STA_START
esp_wifi_start ==
    /\ pc = "esp_wifi_start"
    /\ \E ok \in (IF stack.radio THEN BOOLEAN ELSE {FALSE}) :
          /\ stack' = [stack EXCEPT !.started = ok]
          /\ evq' = IF ok THEN Post(evq, stack, <<WIFI_EVENT, WIFI_EVENT_STA_START>>)
                    ELSE evq
          /\ Return("esp_wifi_start", ok)
    /\ UNCHANGED <<conn, handled, last, connects, log, out, torn, rx, info, cbpc, i>>

\* esp_wifi_set_csi_config(&cfg) on a started radio: the configuration is set
SetCsiConfig(st, cfg) == [st EXCEPT !.csiCfg = <<cfg>>]

\* a plausible slip of the driver: a second receiver is added, not set
SetCsiRxCbAppend(st, cb) == [st EXCEPT !.csiCbs = Append(@, cb)]

\* esp_wifi_set_csi_rx_cb(cb, NULL): the receiver of CSI data is set
SetCsiRxCb(st, cb) == [st EXCEPT !.csiCbs = <<cb>>]

\* a plausible slip: capture switched on although the radio is not started
SetCsiOkAlways(st) == TRUE

\* esp_wifi_set_csi succeeds on a started radio only
SetCsiOk(st) == st.started

\* the stack after esp_wifi_set_csi_config(&csi_config): refused before the start
AfterSetCsiConfig(st) == IF st.started THEN SetCsiConfig(st, csi_config) ELSE st

\* the stack after esp_wifi_set_csi_rx_cb(&wifi_csi_cb, NULL): refused before init
AfterSetCsiRxCb(st) == IF st.radio THEN SetCsiRxCb(st, "wifi_csi_cb") ELSE st

esp_wifi_set_csi_config ==
    /\ pc = "esp_wifi_set_csi_config"
    /\ stack' = AfterSetCsiConfig(stack)
    /\ Return("esp_wifi_set_csi_config", stack.started)
    /\ UnchangedRun

esp_wifi_set_csi_rx_cb ==
    /\ pc = "esp_wifi_set_csi_rx_cb"
    /\ stack' = AfterSetCsiRxCb(stack)
    /\ Return("esp_wifi_set_csi_rx_cb", stack.radio)
    /\ UnchangedRun

esp_wifi_set_csi ==
    /\ pc = "esp_wifi_set_csi"
    /\ LET ok == SetCsiOk(stack) IN
          /\ stack' = IF ok THEN [stack EXCEPT !.csiEn = TRUE] ELSE stack
          /\ Return("esp_wifi_set_csi", ok)
    /\ UnchangedRun

\* the sample whose line wifi_csi_cb has begun and not ended (0: none).
\* ESP_LOGI and printf write to the same console, each call as one write, so
\* an entry logged now lands inside that line.
OpenLine == IF cbpc = "loop" THEN Len(rx) ELSE 0

\* the lines a log entry has been written into, once one more entry is logged
Torn == IF OpenLine # 0 THEN torn \cup {OpenLine} ELSE torn

\* an entry of the diagnostic log
LogEntry(by, msg) == [by |-> by, msg |-> msg]

\* ESP_LOGI(TAG, "CSI initialized")
log_csi_initialized ==
    /\ pc = "ESP_LOGI"
    /\ log' = Append(log, LogEntry("wifi_init", LogCsiInit))
    /\ torn' = Torn
    /\ Return("ESP_LOGI", TRUE)
    /\ UNCHANGED <<stack, conn, evq, handled, last, connects, out, rx, info, cbpc, i>>

WifiInitStep ==
    \/ nvs_flash_init
    \/ esp_netif_init
    \/ esp_event_loop_create_default
    \/ esp_netif_create_default_wifi_sta
    \/ esp_wifi_init
    \/ register_WIFI_EVENT
    \/ register_IP_EVENT
    \/ esp_wifi_set_mode
    \/ esp_wifi_set_config
    \/ esp_wifi_start
    \/ esp_wifi_set_csi_config
    \/ esp_wifi_set_csi_rx_cb
    \/ esp_wifi_set_csi
    \/ log_csi_initialized


(***************************************************************************)
(* wifi_event_handler.                                                     *)
(***************************************************************************)
\* a plausible slip: the reconnect left out of the disconnect branch
WifiEventHandlerNoReconnect(event_base, event_id) ==
    IF event_base = WIFI_EVENT /\ event_id = WIFI_EVENT_STA_START
    THEN [connect |-> 1, log |-> <<>>]
    ELSE IF event_base = WIFI_EVENT /\ event_id = WIFI_EVENT_STA_DISCONNECTED
    THEN [connect |-> 0, log |-> <<LogRetry>>]
    ELSE IF event_base = IP_EVENT /\ event_id = IP_EVENT_STA_GOT_IP
    THEN [connect |-> 0, log |-> <<LogConnected>>]
    ELSE [connect |-> 0, log |-> <<>>]

\* a plausible slip: the first branch logs as well
WifiEventHandlerLogsStart(event_base, event_id) ==
    IF event_base = WIFI_EVENT /\ event_id = WIFI_EVENT_STA_START
    THEN [connect |-> 1, log |-> <<LogRetry>>]
    ELSE IF event_base = WIFI_EVENT /\ event_id = WIFI_EVENT_STA_DISCONNECTED
    THEN [connect |-> 1, log |-> <<LogRetry>>]
    ELSE IF event_base = IP_EVENT /\ event_id = IP_EVENT_STA_GOT_IP
    THEN [connect |-> 0, log |-> <<LogConnected>>]
    ELSE [connect |-> 0, log |-> <<>>]

\* a plausible slip: the branches test event_id alone
WifiEventHandlerIdOnly(event_base, event_id) ==
    IF event_id = WIFI_EVENT_STA_START
    THEN [connect |-> 1, log |-> <<>>]
    ELSE IF event_id = WIFI_EVENT_STA_DISCONNECTED
    THEN [connect |-> 1, log |-> <<LogRetry>>]
    ELSE IF event_id = IP_EVENT_STA_GOT_IP
    THEN [connect |-> 0, log |-> <<LogConnected>>]
    ELSE [connect |-> 0, log |-> <<>>]

\* what one invocation does: the number of esp_wifi_connect calls and the
\* messages it logs
WifiEventHandler(event_base, event_id) ==
    IF event_base = WIFI_EVENT /\ event_id = WIFI_EVENT_STA_START
    THEN [connect |-> 1, log |-> <<>>]
    ELSE IF event_base = WIFI_EVENT /\ event_id = WIFI_EVENT_STA_DISCONNECTED
    THEN [connect |-> 1, log |-> <<LogRetry>>]
    ELSE IF event_base = IP_EVENT /\ event_id = IP_EVENT_STA_GOT_IP
    THEN [connect |-> 0, log |-> <<LogConnected>>]
    ELSE [connect |-> 0, log |-> <<>>]

\* the kind of an event, as the counters of `handled` name it
KindOf(ev) ==
    IF ev = <<WIFI_EVENT, WIFI_EVENT_STA_START>> THEN "sta_start"
    ELSE IF ev = <<WIFI_EVENT, WIFI_EVENT_STA_DISCONNECTED>> THEN "sta_disconnected"
    ELSE IF ev = <<IP_EVENT, IP_EVENT_STA_GOT_IP>> THEN "got_ip"
    ELSE "other"

HandledTotal ==
    handled["sta_start"] + handled["sta_disconnected"] + handled["got_ip"]
        + handled["other"]

\* the loop runs the handler for an event some registration matches
Subscribed(regs, ev) ==
    \E r \in regs : r[1] = ev[1] /\ (r[2] = ESP_EVENT_ANY_ID \/ r[2] = ev[2])

\* esp_wifi_connect(): a started, disconnected station begins to associate
Connect(st, c) == IF st.started /\ c = "disconnected" THEN "connecting" ELSE c

RECURSIVE LogEntries(_, _)
LogEntries(by, msgs) ==
    IF msgs = <<>> THEN <<>>
    ELSE <<LogEntry(by, Head(msgs))>> \o LogEntries(by, Tail(msgs))

\* a plausible slip: the handler switches the capture off as it runs
DispatchDisablesCapture ==
    /\ stack.loop
    /\ evq # <<>>
    /\ LET ev == Head(evq) IN
          /\ Subscribed(stack.regs, ev)
          /\ HandledTotal < MaxEvents
          /\ LET eff == WifiEventHandler(ev[1], ev[2]) IN
                /\ connects' = connects + eff.connect
                /\ conn' = IF eff.connect > 0 THEN Connect(stack, conn) ELSE conn
                /\ log' = log \o LogEntries("wifi_event_handler", eff.log)
                /\ torn' = IF eff.log # <<>> THEN Torn ELSE torn
          /\ handled' = [handled EXCEPT ![KindOf(ev)] = @ + 1]
          /\ last' = ev
    /\ evq' = Tail(evq)
    /\ stack' = [stack EXCEPT !.csiEn = FALSE]
    /\ UNCHANGED <<calls, out, rx, info, cbpc, i>>

\* the event loop task takes the oldest event and runs wifi_event_handler for it
Dispatch ==
    /\ stack.loop
    /\ evq # <<>>
    /\ LET ev == Head(evq) IN
          /\ Subscribed(stack.regs, ev)
          /\ HandledTotal < MaxEvents
          /\ LET eff == WifiEventHandler(ev[1], ev[2]) IN
                /\ connects' = connects + eff.connect
                /\ conn' = IF eff.connect > 0 THEN Connect(stack, conn) ELSE conn
                /\ log' = log \o LogEntries("wifi_event_handler", eff.log)
                /\ torn' = IF eff.log # <<>> THEN Torn ELSE torn
          /\ handled' = [handled EXCEPT ![KindOf(ev)] = @ + 1]
          /\ last' = ev
    /\ evq' = Tail(evq)
    /\ UNCHANGED <<calls, stack, out, rx, info, cbpc, i>>

\* the event loop task drops an event no handler is registered for
DispatchUnsubscribed ==
    /\ stack.loop
    /\ evq # <<>>
    /\ ~Subscribed(stack.regs, Head(evq))
    /\ evq' = Tail(evq)
    /\ UNCHANGED <<calls, stack, conn, handled, last, connects, log, out, torn, rx, info,
                   cbpc, i>>

(***************************************************************************)
(* The vendor stack's own steps: association, address assignment, loss of  *)
(* the link, and events the firmware has no branch for.                    *)
(***************************************************************************)
Room == Len(evq) < MaxQueue

UnchangedByStack ==
    UNCHANGED <<calls, stack, handled, last, connects, log, out, torn, rx, info, cbpc, i>>

StackAssociated ==
    /\ conn = "connecting"
    /\ Room
    /\ conn' = "associated"
    /\ evq' = Post(evq, stack, <<WIFI_EVENT, WIFI_EVENT_STA_CONNECTED>>)
    /\ UnchangedByStack

StackConnectFailed ==
    /\ conn = "connecting"
    /\ Room
    /\ conn' = "disconnected"
    /\ evq' = Post(evq, stack, <<WIFI_EVENT, WIFI_EVENT_STA_DISCONNECTED>>)
    /\ UnchangedByStack

StackGotIp ==
    /\ conn = "associated"
    /\ stack.staIf
    /\ Room
    /\ conn' = "connected"
    /\ evq' = Post(evq, stack, <<IP_EVENT, IP_EVENT_STA_GOT_IP>>)
    /\ UnchangedByStack

StackLinkLost ==
    /\ conn \in {"associated", "connected"}
    /\ Room
    /\ conn' = "disconnected"
    /\ evq' = Post(evq, stack, <<WIFI_EVENT, WIFI_EVENT_STA_DISCONNECTED>>)
    /\ UnchangedByStack

\* events of either class that the handler has no branch for
OtherEvents ==
    {<<WIFI_EVENT, WIFI_EVENT_WIFI_READY>>, <<IP_EVENT, IP_EVENT_AP_STAIPASSIGNED>>}

StackOtherEvent ==
    /\ stack.started
    /\ Room
    /\ \E ev \in OtherEvents : evq' = Post(evq, stack, ev)
    /\ UNCHANGED conn
    /\ UnchangedByStack

(***************************************************************************)
(* The radio driver and wifi_csi_cb.                                       *)
(***************************************************************************)
RawVals == {1, -2, 300}

RECURSIVE SeqsUpTo(_, _)
\* the sequences over S of length at most n
SeqsUpTo(S, n) ==
    IF n = 0 THEN {<<>>}
    ELSE LET shorter == SeqsUpTo(S, n - 1) IN
         shorter \cup {Append(s, v) : s \in {t \in shorter : Len(t) = n - 1}, v \in S}

Samples == SeqsUpTo(RawVals, MaxLen)

SysSamples == {<<>>, <<300, -2>>}

\* the wifi_csi_info_t the driver builds for a frame: buf holds int8_t elements
CsiInfo(raw) == [buf |-> [k \in 1..Len(raw) |-> ToInt8(raw[k])], len |-> Len(raw)]

\* the driver may hand over a frame once capture is on and a receiver is set
CanDeliver(st) == st.started /\ st.csiEn /\ st.csiCbs # <<>>

\* one write of wifi_csi_cb on standard output, for the id-th sample
CsiWrite(id, txt) == [id |-> id, txt |-> txt]

\* the driver calls the registered receiver with a captured frame
Deliver(raw) ==
    /\ CanDeliver(stack)
    /\ stack.csiCbs[1] = "wifi_csi_cb"
    /\ cbpc = "idle"
    /\ Len(rx) < MaxSamples
    /\ rx' = Append(rx, raw)
    /\ info' = CsiInfo(raw)
    /\ cbpc' = "label"
    /\ UNCHANGED <<calls, stack, conn, evq, handled, last, connects, log, out, torn, i>>

\* printf("CSI_DATA: "); int i = 0
CsiLabel ==
    /\ cbpc = "label"
    /\ out' = Append(out, CsiWrite(Len(rx), CsiLabelText))
    /\ i' = 0
    /\ cbpc' = "loop"
    /\ UNCHANGED <<calls, stack, conn, evq, handled, last, connects, log, torn, rx, info>>

\* a plausible slip: the loop stops one element early
CsiLoopCondStopsEarly(idx, len) == idx < len - 1

\* i < info->len
CsiLoopCond(idx, len) == idx < len

\* the loop body: printf("%d ", info->buf[i]); i++
CsiToken ==
    /\ cbpc = "loop"
    /\ CsiLoopCond(i, info.len)
    /\ out' = Append(out, CsiWrite(Len(rx), CsiTokenText(info.buf[i + 1])))
    /\ i' = i + 1
    /\ UNCHANGED <<calls, stack, conn, evq, handled, last, connects, log, torn, rx, info,
                   cbpc>>

\* the loop ends; printf("\n"); return
CsiNewline ==
    /\ cbpc = "loop"
    /\ ~CsiLoopCond(i, info.len)
    /\ out' = Append(out, CsiWrite(Len(rx), CsiNewlineText))
    /\ cbpc' = "idle"
    /\ info' = NoInfo
    /\ i' = 0
    /\ UNCHANGED <<calls, stack, conn, evq, handled, last, connects, log, torn, rx>>

(***************************************************************************)
(* The whole system.                                                       *)
(***************************************************************************)
Next ==
    \/ WifiInitStep
    \/ Dispatch
    \/ DispatchUnsubscribed
    \/ StackAssociated
    \/ StackConnectFailed
    \/ StackGotIp
    \/ StackLinkLost
    \/ StackOtherEvent
    \/ \E raw \in SysSamples : Deliver(raw)
    \/ CsiLabel
    \/ CsiToken
    \/ CsiNewline

Spec == Init /\ [][Next]_vars


(***************************************************************************)
(* wifi_csi_cb alone: the station has been brought up without an error,    *)
(* nothing has been dispatched yet, and the driver delivers samples.       *)
(***************************************************************************)
InitCsi ==
    /\ calls = [k \in 1..Len(WifiInitOrder) |->
                   [fn |-> WifiInitOrder[k], ret |-> "ESP_OK"]]
    /\ stack = [nvs |-> TRUE, netif |-> TRUE, loop |-> TRUE, staIf |-> TRUE,
                radio |-> TRUE,
                regs |-> {<<WIFI_EVENT, ESP_EVENT_ANY_ID>>,
                          <<IP_EVENT, IP_EVENT_STA_GOT_IP>>},
                mode |-> "WIFI_MODE_STA", config |-> <<wifi_config>>,
                started |-> TRUE, csiCfg |-> <<csi_config>>,
                csiCbs |-> <<"wifi_csi_cb">>, csiEn |-> TRUE]
    /\ conn = "disconnected"
    /\ evq = << <<WIFI_EVENT, WIFI_EVENT_STA_START>> >>
    /\ handled = [k \in EventKinds |-> 0]
    /\ last = <<>>
    /\ connects = 0
    /\ log = <<LogEntry("wifi_init", LogCsiInit)>>
    /\ out = <<>>
    /\ torn = {}
    /\ rx = <<>>
    /\ info = NoInfo
    /\ cbpc = "idle"
    /\ i = 0

NextCsi ==
    \/ \E raw \in Samples : Deliver(raw)
    \/ CsiLabel
    \/ CsiToken
    \/ CsiNewline

SpecCsi == InitCsi /\ [][NextCsi]_vars

\* refuted by TLC under Spec: the state SpecCsi starts in is a reachable
\* state of the whole system
InitCsiNotReached == ~InitCsi

(***************************************************************************)
(* Reading the output back.                                                *)
(***************************************************************************)
\* the entries of the diagnostic log written by `by`
LoggedBy(by) == SelectSeq(log, LAMBDA e : e.by = by)

RECURSIVE Flatten(_)
Flatten(ws) == IF ws = <<>> THEN <<>> ELSE Head(ws).txt \o Flatten(Tail(ws))

\* the characters wifi_csi_cb has written for the k-th sample
Line(k) == Flatten(SelectSeq(out, LAMBDA w : w.id = k))

\* the samples whose invocation of wifi_csi_cb has returned
Returned == {k \in 1..Len(rx) : k < Len(rx) \/ cbpc = "idle"}

IsPrefix(p, s) == Len(p) <= Len(s) /\ SubSeq(s, 1, Len(p)) = p

\* a line between its label and its last character
Body(line) == SubSeq(line, Len(CsiLabelText) + 1, Len(line) - 1)

RECURSIVE Split(_)
\* the pieces of s between its spaces
Split(s) ==
    IF \A k \in 1..Len(s) : s[k] # " " THEN <<s>>
    ELSE LET p == CHOOSE k \in 1..Len(s) :
                     s[k] = " " /\ \A j \in 1..(k - 1) : s[j] # " "
         IN <<SubSeq(s, 1, p - 1)>> \o Split(SubSeq(s, p + 1, Len(s)))

IsDigit(c) == \E d \in 1..10 : Digits[d] = c

\* a decimal numeral: an optional minus sign, then one digit or more
IsNumeral(t) ==
    /\ Len(t) >= 1
    /\ LET ds == IF t[1] = "-" THEN Tail(t) ELSE t IN
          Len(ds) >= 1 /\ \A k \in 1..Len(ds) : IsDigit(ds[k])

DigitVal(c) == (CHOOSE d \in 1..10 : Digits[d] = c) - 1

RECURSIVE ParseNat(_)
ParseNat(ds) ==
    IF Len(ds) = 1 THEN DigitVal(ds[1])
    ELSE 10 * ParseNat(SubSeq(ds, 1, Len(ds) - 1)) + DigitVal(ds[Len(ds)])

\* the integer a numeral denotes
ParseInt(t) == IF t[1] = "-" THEN -ParseNat(Tail(t)) ELSE ParseNat(t)

\* a line is framed: the label first, one newline last, none in between
Framed(line) ==
    /\ Len(line) >= Len(CsiLabelText) + 1
    /\ IsPrefix(CsiLabelText, line)
    /\ line[Len(line)] = "\n"
    /\ \A k \in 1..(Len(line) - 1) : line[k] # "\n"

\* the tokens of a body in which tokens are separated by single spaces and
\* nothing follows the last one
TokensSeparated(body) == IF body = <<>> THEN <<>> ELSE Split(body)

\* the tokens of a body in which every token is followed by one space
TokensTerminated(body) ==
    IF body = <<>> THEN <<>> ELSE Split(SubSeq(body, 1, Len(body) - 1))

\* position of the first call of fn, 0 if it was not made
CallIndex(fn) ==
    IF Called(fn) THEN CHOOSE k \in 1..Len(calls) :
                          calls[k].fn = fn /\ \A j \in 1..(k - 1) : calls[j].fn # fn
    ELSE 0

\* b is never called unless a was called earlier
Before(a, b) == Called(b) => (Called(a) /\ CallIndex(a) < CallIndex(b))

RECURSIVE InOrder(_)
\* the calls named by fns are made in that order
InOrder(fns) ==
    Len(fns) < 2 \/ (Before(fns[1], fns[2]) /\ InOrder(Tail(fns)))


(***************************************************************************)
(* The claims.                                                             *)
(***************************************************************************)

\* C1: the number of connect requests issued equals the number of
\* station-started plus station-disconnected events handled so far, however
\* many disconnects have already been handled: one request per such event,
\* none for any other event and none between events.
C1_ConnectPerEvent ==
    connects = handled["sta_start"] + handled["sta_disconnected"]

\* C1 witness: a third connect request, after two disconnects were handled
C1_Witness ==
    /\ handled["sta_start"] = 1
    /\ handled["sta_disconnected"] = 2
    /\ connects = 3

\* C2 as claimed: every line wifi_csi_cb has finished is the label, then
\* exactly n decimal tokens separated by single spaces with nothing after
\* the last token, then one newline (for n = 0 the label, then the newline).
C2_NoTrailingSeparator ==
    \A k \in Returned :
        LET line == Line(k)
            toks == TokensSeparated(Body(line))
        IN /\ Framed(line)
           /\ Len(toks) = Len(rx[k])
           /\ \A t \in 1..Len(toks) : IsNumeral(toks[t])

\* C2 as amended: every line wifi_csi_cb has finished is the label, then
\* exactly n decimal tokens each followed by one space (the last one too),
\* then one newline; for n = 0 the label is followed by the newline at once.
C2_TokenThenSpace ==
    \A k \in Returned :
        LET line == Line(k)
            body == Body(line)
            toks == TokensTerminated(body)
        IN /\ Framed(line)
           /\ Len(toks) = Len(rx[k])
           /\ \A t \in 1..Len(toks) : IsNumeral(toks[t])
           /\ body # <<>> => body[Len(body)] = " "
           /\ Len(rx[k]) = 0 => line = CsiLabelText \o <<"\n">>

\* C2 witness: a finished line of three tokens
C2_Witness ==
    /\ cbpc = "idle"
    /\ Len(rx) = 1
    /\ Len(rx[1]) = 3
    /\ Len(Line(1)) > Len(CsiLabelText) + 1

\* C3 as claimed: the i-th token of a finished line is the decimal rendering
\* of the i-th value of the sample as given, so that [1, -2, 300] is printed
\* as 1, -2 and 300.
C3_ValuesAsGiven ==
    \A k \in Returned :
        LET toks == TokensTerminated(Body(Line(k))) IN
        /\ Len(toks) = Len(rx[k])
        /\ \A t \in 1..Len(toks) : ParseInt(toks[t]) = rx[k][t]

\* C3 as amended: the i-th token of a finished line is the decimal rendering
\* of the i-th element of the buffer, in index order, and an element is a
\* signed byte: a value is printed as the signed byte that holds it, so that
\* [1, -2, 300] is printed as 1, -2 and 44.
C3_ValuesAsSignedBytes ==
    \A k \in Returned :
        LET toks == TokensTerminated(Body(Line(k))) IN
        /\ Len(toks) = Len(rx[k])
        /\ \A t \in 1..Len(toks) :
              /\ ParseInt(toks[t]) \in -128..127
              /\ (ParseInt(toks[t]) - rx[k][t]) % 256 = 0
              /\ rx[k][t] \in -128..127 => ParseInt(toks[t]) = rx[k][t]
        /\ rx[k] = <<1, -2, 300>> =>
              Line(k) = CsiLabelText \o <<"1", " ", "-", "2", " ", "4", "4", " ", "\n">>

\* C3 witness: the line of the sample [1, -2, 300] is finished
C3_Witness ==
    /\ cbpc = "idle"
    /\ rx = << <<1, -2, 300>> >>
    /\ Len(Line(1)) > Len(CsiLabelText)

\* C4: the number of log entries wifi_event_handler has written equals the
\* number of station-disconnected plus address-assigned events handled, and
\* the connect requests are those of the station-started and
\* station-disconnected events: a disconnect gives one request and one
\* entry, an address assignment one entry and no request, a start no entry.
C4_LogPerEvent ==
    /\ Len(LoggedBy("wifi_event_handler"))
          = handled["sta_disconnected"] + handled["got_ip"]
    /\ connects + handled["got_ip"] + handled["other"] = HandledTotal

\* C4 witness: a start, an address assignment and a disconnect were handled
C4_Witness ==
    /\ handled["sta_start"] = 1
    /\ handled["got_ip"] = 1
    /\ handled["sta_disconnected"] = 1
    /\ Len(LoggedBy("wifi_event_handler")) = 2
    /\ connects = 2

\* C5: a handler invocation for an event other than the three leaves the
\* connect count, the connection, the log and the output as they were; and the
\* handler does nothing for any (class, kind) pair other than the three,
\* whichever class the kind's number belongs to.
C5_OthersIgnored ==
    /\ [][handled'["other"] # handled["other"]
            => connects' = connects /\ log' = log /\ out' = out /\ conn' = conn]_vars
    /\ [](\A b \in {WIFI_EVENT, IP_EVENT} : \A k \in 0..6 :
            KindOf(<<b, k>>) = "other"
                => WifiEventHandler(b, k) = [connect |-> 0, log |-> <<>>])

\* C5 witness: the handler has run for a link-layer event whose number is
\* that of the address-assigned kind
C5_Witness ==
    /\ last = <<WIFI_EVENT, IP_EVENT_STA_GOT_IP>>
    /\ handled["other"] > 0

\* C6: once a call of wifi_init has returned an error no further call is
\* made, and the radio is not started nor capture enabled afterwards.
C6_FailureIsFatal ==
    \A k \in 2..Len(calls) :
        calls[k].ret = "ESP_FAIL" =>
            /\ k = Len(calls)
            /\ ~(pc = "done" /\ (stack.started \/ stack.csiEn))

\* C7 as claimed: storage first, then network runtime, event loop, station
\* interface, radio init, the two subscriptions, the configuration, the
\* mode, the start.
C7_ConfigBeforeMode ==
    InOrder(<<"nvs_flash_init", "esp_netif_init", "esp_event_loop_create_default",
              "esp_netif_create_default_wifi_sta", "esp_wifi_init",
              "register_WIFI_EVENT", "register_IP_EVENT",
              "esp_wifi_set_config", "esp_wifi_set_mode", "esp_wifi_start">>)

\* C7 as amended: storage is initialized once and first, then network
\* runtime, event loop, station interface, radio init, the two
\* subscriptions, then the station mode is set, then the configuration is
\* applied, then the radio is started: the mode precedes the configuration,
\* and the subscriptions and the configuration precede the start.
C7_ModeBeforeConfig ==
    /\ InOrder(<<"nvs_flash_init", "esp_netif_init", "esp_event_loop_create_default",
                 "esp_netif_create_default_wifi_sta", "esp_wifi_init",
                 "register_WIFI_EVENT", "register_IP_EVENT",
                 "esp_wifi_set_mode", "esp_wifi_set_config", "esp_wifi_start">>)
    /\ Cardinality({k \in 1..Len(calls) : calls[k].fn = "nvs_flash_init"}) <= 1
    /\ stack.started => /\ stack.config = <<wifi_config>>
                        /\ stack.mode = "WIFI_MODE_STA"
                        /\ stack.loop => Cardinality(stack.regs) = 2

\* C7 witness: the radio has been started
C7_Witness == Called("esp_wifi_start") /\ stack.started /\ stack.loop

C9_RegisteredBeforeEnabled ==
    /\ Before("esp_wifi_set_csi_config", "esp_wifi_set_csi")
    /\ Before("esp_wifi_set_csi_rx_cb", "esp_wifi_set_csi")
    /\ (stack.csiEn \/ cbpc # "idle" \/ rx # <<>>)
          => /\ stack.csiCfg = <<csi_config>>
             /\ stack.csiCbs = <<"wifi_csi_cb">>
    /\ out # <<>> => rx # <<>>

\* C9 witness: capture is enabled and a delivered sample is being printed
C9_Witness == stack.csiEn /\ rx # <<>> /\ cbpc = "loop"

C11_LinesContiguous ==
    \A k \in Returned :
        /\ Framed(Line(k))
        /\ Len(TokensTerminated(Body(Line(k)))) = Len(rx[k])
        /\ k \notin torn


\* the event is in the event loop's queue, still to be dispatched
Pending(ev) == \E k \in 1..Len(evq) : evq[k] = ev

\* C12: the station-started event is never missed: once the radio has been
\* started, the event raised by the start is either still queued for
\* wifi_event_handler or has been delivered to it and a connect was issued.
C12_StartNeverMissed ==
    stack.started =>
        \/ Pending(<<WIFI_EVENT, WIFI_EVENT_STA_START>>)
        \/ handled["sta_start"] >= 1 /\ connects >= 1


\* the number of times wifi_init has called fn
CallCount(fn) == Cardinality({k \in 1..Len(calls) : calls[k].fn = fn})

\* a step of wifi_event_handler / of wifi_csi_cb
HandlerStep == handled' # handled
CallbackStep == out' # out \/ cbpc' # cbpc \/ rx' # rx

\* C13: the connection configuration and the CSI capture configuration are
\* each applied once, by wifi_init, and no step of wifi_event_handler or of
\* wifi_csi_cb changes them; wifi_csi_cb issues no connect and no log entry;
\* wifi_event_handler writes no CSI line and leaves the callback registration
\* and the capture-enabled flag as they are.
C13_FrameEffects ==
    /\ [](/\ CallCount("esp_wifi_set_config") <= 1
          /\ CallCount("esp_wifi_set_csi_config") <= 1
          /\ pc = "done" => /\ CallCount("esp_wifi_set_config") = 1
                            /\ CallCount("esp_wifi_set_csi_config") = 1
          /\ stack.config \in {<<>>, <<wifi_config>>}
          /\ stack.csiCfg \in {<<>>, <<csi_config>>})
    /\ [][/\ stack'.config # stack.config
               => pc = "esp_wifi_set_config" /\ stack.config = <<>>
          /\ stack'.csiCfg # stack.csiCfg
               => pc = "esp_wifi_set_csi_config" /\ stack.csiCfg = <<>>
          /\ HandlerStep
               => /\ stack' = stack
                  /\ calls' = calls
                  /\ out' = out /\ rx' = rx /\ cbpc' = cbpc
          /\ CallbackStep
               => /\ stack' = stack
                  /\ calls' = calls
                  /\ connects' = connects /\ conn' = conn
                  /\ log' = log /\ handled' = handled]_vars

\* after wifi_init has applied both configurations, the handler has run
\* (connecting and logging) and the callback has printed a sample
C13_Witness ==
    /\ pc = "done"
    /\ stack.config = <<wifi_config>>
    /\ stack.csiCfg = <<csi_config>>
    /\ handled["sta_disconnected"] >= 1
    /\ connects >= 2
    /\ \E k \in Returned : Len(rx[k]) >= 1


\* the writes wifi_csi_cb has made for sample k
Writes(k) == SelectSeq(out, LAMBDA w : w.id = k)

\* what is left of the running callback: the label, one step per remaining
\* element, the newline
Rank ==
    IF cbpc = "label" THEN info.len + 2
    ELSE IF cbpc = "loop" THEN info.len - i + 1
    ELSE 0

\* C14: every handler invocation runs to completion without waiting.
\* wifi_event_handler returns after at most one connect and one log entry.
\* wifi_csi_cb, for a sample of n elements, always has a next step until it
\* returns, every step brings it nearer to the return, its index goes up by
\* one per token from 0 to n, it reads info->buf only at 0..n-1, it returns
\* after exactly n token writes, and it keeps nothing of the sample after.
C14_RunToCompletion ==
    /\ [](/\ cbpc # "idle" => ENABLED (CsiLabel \/ CsiToken \/ CsiNewline)
          /\ cbpc = "idle" => info = NoInfo /\ i = 0
          /\ cbpc = "label" => Writes(Len(rx)) = <<>>
          /\ cbpc = "loop" => /\ i \in 0..info.len
                              /\ Len(Writes(Len(rx))) = 1 + i
                              /\ CsiLoopCond(i, info.len)
                                    => (i + 1) \in DOMAIN info.buf
          /\ cbpc # "idle" => info.len = Len(rx[Len(rx)])
          /\ \A k \in Returned : Len(Writes(k)) = Len(rx[k]) + 2)
    /\ [][/\ HandlerStep
               => /\ connects' - connects \in {0, 1}
                  /\ Len(log') - Len(log) \in {0, 1}
          /\ (cbpc # "idle" /\ CallbackStep) => Rank' < Rank
          /\ (cbpc = "loop" /\ cbpc' = "loop" /\ out' # out) => i' = i + 1
          /\ (cbpc = "loop" /\ cbpc' = "idle") => i = info.len]_vars

\* the handler has connected and logged for a disconnection, and the callback
\* has returned from a sample of two elements after its four writes
C14_Witness ==
    /\ handled["sta_disconnected"] >= 1
    /\ \E e \in 1..Len(log) : log[e].msg = LogRetry
    /\ \E k \in Returned : Len(rx[k]) = 2 /\ Len(Writes(k)) = 4

=============================================================================
